---- MODULE Spec2Model ----
(***************************************************************************)
(* Model of SPH_Simulation.py: the ParticleList constructor, the timestep  *)
(* function with the kernels it calls, and the loop that precomputes the   *)
(* frames.                                                                 *)
(*                                                                         *)
(* Numbers.  The program computes in float64.  The model computes in       *)
(* fixed point: the integer n stands for the real n / ONE, every product   *)
(* and quotient is rounded toward zero to a multiple of 1 / ONE (the       *)
(* model's rounding unit), and NaN stands for a non-finite result, which   *)
(* every operation propagates.  Like float64 the arithmetic underflows: a  *)
(* small enough kernel value is exactly 0.                                 *)
(*                                                                         *)
(* Arrays.  A numpy array of shape (n,) is a sequence of n numbers, one of *)
(* shape (n, 2) a sequence of n pairs <<x, y>>.  Indices are 1-based, so   *)
(* the slice [:F] is the index set 1..F (clipped to the array).            *)
(***************************************************************************)
EXTENDS Integers, Sequences, FiniteSets

\* ------------------------------------------------------------------ bounds
MaxN == 3
num_frames == 3

\* ------------------------------------------------------- float64 arithmetic
ONE == 256
NaN == -1073741824
SQRT_2PI == 642
LOG2E == 369

Quot(a, b) == IF a >= 0 THEN a \div b ELSE -((-a) \div b)

fadd(a, b) == IF a = NaN \/ b = NaN THEN NaN ELSE a + b

fsub(a, b) == IF a = NaN \/ b = NaN THEN NaN ELSE a - b

fneg(a) == IF a = NaN THEN NaN ELSE -a

fmul(a, b) == IF a = NaN \/ b = NaN THEN NaN ELSE Quot(a * b, ONE)

fdiv(a, b) ==
  IF a = NaN \/ b = NaN \/ b = 0 THEN NaN
  ELSE IF b > 0 THEN Quot(a * ONE, b) ELSE Quot(-(a * ONE), -b)

np_maximum(a, b) == IF a = NaN \/ b = NaN THEN NaN ELSE IF a >= b THEN a ELSE b

\* exp(x) = 2^(x * log2 e): the integer part of the exponent is a shift,
\* the fractional part is interpolated linearly between 1 and 2 (or 1 and 1/2)
np_exp(x) ==
  IF x = NaN THEN NaN
  ELSE LET t == fmul(IF x >= 0 THEN x ELSE -x, LOG2E)
           n == t \div ONE
           f == t % ONE
       IN  IF x >= 0 THEN (ONE + f) * (2 ^ n)
           ELSE IF n > 30 THEN 0 ELSE ((2 * ONE - f) \div 2) \div (2 ^ n)

\* ------------------------------------------------------------- (n, 2) rows
vadd(u, v) == << fadd(u[1], v[1]), fadd(u[2], v[2]) >>

vsub(u, v) == << fsub(u[1], v[1]), fsub(u[2], v[2]) >>

vscale(s, v) == << fmul(s, v[1]), fmul(s, v[2]) >>

vdiv(v, s) == << fdiv(v[1], s), fdiv(v[2], s) >>

\* np.linalg.norm(d, axis=-1) ** 2
norm_sq(d) == fadd(fmul(d[1], d[1]), fmul(d[2], d[2]))

RECURSIVE np_sum(_)
np_sum(s) == IF s = << >> THEN 0 ELSE fadd(np_sum(SubSeq(s, 1, Len(s) - 1)), s[Len(s)])

RECURSIVE np_sum_rows(_)
np_sum_rows(s) ==
  IF s = << >> THEN << 0, 0 >>
  ELSE vadd(np_sum_rows(SubSeq(s, 1, Len(s) - 1)), s[Len(s)])

\* the array with the entries f[1], ..., f[n], each computed once
RECURSIVE np_array(_, _)
np_array(f, n) == IF n = 0 THEN << >> ELSE Append(np_array(f, n - 1), f[n])

\* two array lengths broadcast against each other
broadcastable(m, n) == m = n \/ m = 1 \/ n = 1

\* ------------------------------------------------------------------ kernels
gaussian(d, hh) ==
  fmul(fdiv(ONE, fmul(hh, SQRT_2PI)),
       np_exp(fdiv(fneg(norm_sq(d)), fmul(2 * ONE, fmul(hh, hh)))))

gaussian_grad(d, hh) ==
  vscale(fmul(fdiv(-ONE, fmul(fmul(fmul(hh, hh), hh), SQRT_2PI)),
              np_exp(fdiv(fneg(norm_sq(d)), fmul(2 * ONE, fmul(hh, hh))))),
         d)

\* -------------------------------------------------------------- the state
VARIABLES
  masses, positions, velocities,    \* the arrays assembled for the constructor
  h, k, num_fluid_particles,        \* smoothing length, stiffness, fluid count
  g, dt,                            \* gravity vector and timestep
  particles,                        \* the ParticleList instance
  frame_data,                       \* the list of recorded frames
  densities, pressures, pressure_grads,  \* what the last timestep computed
  pc                                \* where the script is

vars == << masses, positions, velocities, h, k, num_fluid_particles, g, dt,
           particles, frame_data, densities, pressures, pressure_grads, pc >>

\* ------------------------------------------------------ physics functions
\* reconstruct_density without the self term j = i
reconstruct_density_no_self(ps) ==
  LET n == ps.num_particles
  IN  np_array([i \in 1..n |->
                  np_sum(np_array([j \in 1..n |->
                                     IF j = i THEN 0
                                     ELSE fmul(ps.masses[j],
                                               gaussian(vsub(ps.positions[i],
                                                             ps.positions[j]), ps.h))],
                                  n))], n)

reconstruct_density(ps) ==
  LET n == ps.num_particles
  IN  np_array([i \in 1..n |->
                  np_sum(np_array([j \in 1..n |->
                                     fmul(ps.masses[j],
                                          gaussian(vsub(ps.positions[i], ps.positions[j]),
                                                   ps.h))], n))], n)

\* masses[np.newaxis, :] * gaussian(...) raises when the lengths do not broadcast
reconstruct_density_raises(ps) == ~broadcastable(Len(ps.masses), ps.num_particles)

\* eval_pressure without the clip at zero
eval_pressure_unclipped(ps, dens) ==
  np_array([i \in 1..ps.num_particles |->
              fmul(ps.k, fsub(fdiv(dens[i], ps.rest_densities[i]), ONE))],
           ps.num_particles)

\* eval_pressure without the offset of the rest state
eval_pressure_no_offset(ps, dens) ==
  np_array([i \in 1..ps.num_particles |->
              fmul(ps.k, np_maximum(fdiv(dens[i], ps.rest_densities[i]), 0))],
           ps.num_particles)

eval_pressure(ps, dens) ==
  np_array([i \in 1..ps.num_particles |->
              fmul(ps.k, np_maximum(fsub(fdiv(dens[i], ps.rest_densities[i]), ONE), 0))],
           ps.num_particles)

\* eval_pressure_grad with density and fraction_sum indexed by the row i
eval_pressure_grad_own(ps, dens) ==
  LET n == ps.num_particles
      pr == eval_pressure(ps, dens)
      gauss(i, j) == gaussian_grad(vsub(ps.positions[i], ps.positions[j]), ps.h)
      fraction_sum == np_array([i \in 1..n |->
                                  fadd(fdiv(pr[i], fmul(dens[i], dens[i])),
                                       fdiv(pr[i], fmul(dens[i], dens[i])))], n)
  IN  np_array([i \in 1..n |->
                  np_sum_rows(np_array([j \in 1..n |->
                                          vscale(fmul(fmul(dens[i], ps.masses[j]),
                                                      fraction_sum[i]),
                                                 gauss(i, j))], n))], n)

\* densities[:, np.newaxis], masses[:, np.newaxis] and fraction_sum have shape
\* (N, 1) and are multiplied with the (N, N, 2) array of kernel gradients:
\* broadcasting aligns their N with the second axis, the one that is summed
eval_pressure_grad(ps, dens) ==
  LET n == ps.num_particles
      pr == eval_pressure(ps, dens)
      gauss(i, j) == gaussian_grad(vsub(ps.positions[i], ps.positions[j]), ps.h)
      fraction_sum == np_array([j \in 1..n |->
                                  fadd(fdiv(pr[j], fmul(dens[j], dens[j])),
                                       fdiv(pr[j], fmul(dens[j], dens[j])))], n)
  IN  np_array([i \in 1..n |->
                  np_sum_rows(np_array([j \in 1..n |->
                                          vscale(fmul(fmul(dens[j], ps.masses[j]),
                                                      fraction_sum[j]),
                                                 gauss(i, j))], n))], n)

\* apply_gravity_force without the [:num_fluid_particles] slice
apply_gravity_force_all(ps, gv, tdt) ==
  np_array([i \in 1..Len(ps.velocities) |-> vadd(ps.velocities[i], vscale(tdt, gv))],
           Len(ps.velocities))

apply_gravity_force(ps, gv, tdt) ==
  np_array([i \in 1..Len(ps.velocities) |->
              IF i <= ps.num_fluid_particles
              THEN vadd(ps.velocities[i], vscale(tdt, gv))
              ELSE ps.velocities[i]],
           Len(ps.velocities))

apply_pressure_force(ps, vel, dens, grads, tdt) ==
  LET force(i) == vscale(fdiv(-ONE, dens[i]), grads[i])
  IN  np_array([i \in 1..ps.num_particles |->
                  vadd(vel[i], vdiv(vscale(tdt, force(i)), ps.masses[i]))],
               ps.num_particles)

\* velocities + dt * force / masses raises when the lengths do not broadcast
apply_pressure_force_raises(ps, vel) == ~broadcastable(Len(vel), ps.num_particles)

\* update_positions without the [:num_fluid_particles] slice
update_positions_all(ps, vel, tdt) ==
  np_array([i \in 1..ps.num_particles |-> vadd(ps.positions[i], vscale(tdt, vel[i]))],
           ps.num_particles)

\* update_positions that integrates the velocities of the previous step
update_positions_old_velocities(ps, vel, tdt) ==
  np_array([i \in 1..ps.num_particles |->
              IF i <= ps.num_fluid_particles
              THEN vadd(ps.positions[i], vscale(tdt, ps.velocities[i]))
              ELSE ps.positions[i]],
           ps.num_particles)

update_positions(ps, vel, tdt) ==
  np_array([i \in 1..ps.num_particles |->
              IF i <= ps.num_fluid_particles
              THEN vadd(ps.positions[i], vscale(tdt, vel[i]))
              ELSE ps.positions[i]],
           ps.num_particles)

\* timestep that also overwrites the rest densities with the current ones
timestep_refreshes_rest(ps, gv, tdt) ==
  LET dens == reconstruct_density(ps)
      grads == eval_pressure_grad(ps, dens)
      velocities1 == apply_gravity_force(ps, gv, tdt)
      new_velocities == apply_pressure_force(ps, velocities1, dens, grads, tdt)
      new_positions == update_positions(ps, new_velocities, tdt)
  IN  [ps EXCEPT !.positions = new_positions, !.velocities = new_velocities,
                 !.rest_densities = dens]

\* the particle set after timestep(particles, g, dt)
timestep(ps, gv, tdt) ==
  LET dens == reconstruct_density(ps)
      grads == eval_pressure_grad(ps, dens)
      velocities1 == apply_gravity_force(ps, gv, tdt)
      new_velocities == apply_pressure_force(ps, velocities1, dens, grads, tdt)
      new_positions == update_positions(ps, new_velocities, tdt)
  IN  [ps EXCEPT !.positions = new_positions, !.velocities = new_velocities]

\* the ValueError of apply_pressure_force leaves timestep before it commits
timestep_raises(ps, gv, tdt) ==
  apply_pressure_force_raises(ps, apply_gravity_force(ps, gv, tdt))

\* ParticleList.__init__
ParticleList(ms, xs, vs, hh, kk, nfp) ==
  LET self == [masses |-> ms, positions |-> xs, velocities |-> vs, h |-> hh,
               k |-> kk, num_particles |-> Len(xs),
               num_fluid_particles |-> nfp, rest_densities |-> << >>]
  IN  [self EXCEPT !.rest_densities = reconstruct_density(self)]

ParticleList_raises(ms, xs) ==
  reconstruct_density_raises([masses |-> ms, num_particles |-> Len(xs)])

NoParticles ==
  [masses |-> << >>, positions |-> << >>, velocities |-> << >>, h |-> 0, k |-> 0,
   num_particles |-> 0, num_fluid_particles |-> 0, rest_densities |-> << >>]

\* ------------------------------------------------------------------ inputs
\* The functions take h, k, g, dt and the arrays as arguments; the inputs are
\* drawn from small sets.  Lengths are measured in smoothing lengths (h = 1.0),
\* with particles a kernel width apart or out of each other's kernel range.
PosSet == { << 0, 0 >>, << ONE \div 2, ONE >>, << 0, 4 * ONE >> }
PosSetAny == { << 0, 0 >>, << 0, ONE >> }
MassSet == { ONE \div 2, ONE }
VelSet == { << 0, 0 >>, << 0, -ONE >>, << 0, ONE >> }
GSet == { << 0, 0 >>, << 0, -ONE >> }
HSet == { ONE }
KSet == { (23 * ONE) \div 10 }
DtSet == { ONE \div 2 }

\* the arrays of n particles: uniform mass and zero velocity as in the script,
\* except that particle 1 may be lighter and may start with a velocity
MassArrays(n) == { [i \in 1..n |-> IF i = 1 THEN m1 ELSE ONE] : m1 \in MassSet }

VelArrays(n) == { [i \in 1..n |-> IF i = 1 THEN v ELSE << 0, 0 >>] : v \in VelSet }

Rest ==
  /\ h \in HSet
  /\ k \in KSet
  /\ g \in GSet
  /\ dt \in DtSet
  /\ particles = NoParticles
  /\ frame_data = << >>
  /\ densities = << >>
  /\ pressures = << >>
  /\ pressure_grads = << >>
  /\ pc = "construct"

\* consistent arrays, as the script assembles them
Init ==
  /\ \E n \in 2..MaxN :
       /\ positions \in [1..n -> PosSet]
       /\ masses \in MassArrays(n)
       /\ velocities \in VelArrays(n)
       /\ num_fluid_particles \in 0..n
  /\ Rest

\* any arguments the constructor accepts
InitAny ==
  /\ \E n \in 2..MaxN :
       /\ positions \in [1..n -> PosSetAny]
       /\ masses \in MassArrays(n) \cup MassArrays(n + 1)
       /\ velocities \in VelArrays(n) \cup VelArrays(n + 1)
       /\ num_fluid_particles \in 0..(n + 1)
  /\ Rest

\* ----------------------------------------------------------------- actions
\* particles = ParticleList(masses, positions.copy(), velocities.copy(), ...)
construct ==
  /\ pc = "construct"
  /\ IF ParticleList_raises(masses, positions)
     THEN /\ pc' = "ctor_error"
          /\ UNCHANGED particles
     ELSE /\ pc' = "loop"
          /\ particles' = ParticleList(masses, positions, velocities, h, k,
                                       num_fluid_particles)
  /\ UNCHANGED << masses, positions, velocities, h, k, num_fluid_particles, g, dt,
                  frame_data, densities, pressures, pressure_grads >>

\* the loop body with the two statements swapped: append, then timestep
frame_loop_append_first ==
  /\ pc = "loop"
  /\ Len(frame_data) < num_frames
  /\ densities' = reconstruct_density(particles)
  /\ pressures' = eval_pressure(particles, densities')
  /\ pressure_grads' = eval_pressure_grad(particles, densities')
  /\ IF timestep_raises(particles, g, dt)
     THEN /\ pc' = "step_error"
          /\ UNCHANGED particles
          /\ frame_data' = Append(frame_data, particles.positions)
     ELSE /\ pc' = "loop"
          /\ particles' = timestep(particles, g, dt)
          /\ frame_data' = Append(frame_data, particles.positions)
  /\ UNCHANGED << masses, positions, velocities, h, k, num_fluid_particles, g, dt >>

\* one iteration of the loop: timestep, then append a copy of the positions
frame_loop ==
  /\ pc = "loop"
  /\ Len(frame_data) < num_frames
  /\ densities' = reconstruct_density(particles)
  /\ pressures' = eval_pressure(particles, densities')
  /\ pressure_grads' = eval_pressure_grad(particles, densities')
  /\ IF timestep_raises(particles, g, dt)
     THEN /\ pc' = "step_error"
          /\ UNCHANGED << particles, frame_data >>
     ELSE /\ pc' = "loop"
          /\ particles' = timestep(particles, g, dt)
          /\ frame_data' = Append(frame_data, particles'.positions)
  /\ UNCHANGED << masses, positions, velocities, h, k, num_fluid_particles, g, dt >>

\* range(num_frames) is exhausted: the script goes on to the plot
loop_exit ==
  /\ pc = "loop"
  /\ Len(frame_data) = num_frames
  /\ pc' = "done"
  /\ UNCHANGED << masses, positions, velocities, h, k, num_fluid_particles, g, dt,
                  particles, frame_data, densities, pressures, pressure_grads >>

Next == construct \/ frame_loop \/ loop_exit

Spec == Init /\ [][Next]_vars

SpecAny == InitAny /\ [][Next]_vars

\* ------------------------------------------------------------- properties
N == particles.num_particles
F == particles.num_fluid_particles
Constructed == pc \in { "loop", "done" }

\* a timestep was executed and committed in this step
Stepped == Len(frame_data') = Len(frame_data) + 1

\* the kernel value at zero displacement
W0 == gaussian(<< 0, 0 >>, h)

\* C1: after any number of timesteps the positions of the boundary particles
\* (index above the fluid count) are the construction-time positions,
\* whatever their velocities
C1_BoundaryPositionsFrozen ==
  Constructed =>
    \A i \in 1..N : i > F => particles.positions[i] = positions[i]

\* C1 case: two timesteps done, a boundary particle whose velocity is not
\* zero, and a fluid particle that has moved
C1_Witness ==
  /\ Constructed
  /\ Len(frame_data) >= 2
  /\ \E i \in 1..N : i > F /\ particles.velocities[i] # << 0, 0 >>
  /\ \E i \in 1..N : i <= F /\ particles.positions[i] # positions[i]

\* C2: the rest densities are those the density reconstruction gives on the
\* initial positions, after construction and after every timestep
C2_RestDensitiesWriteOnce ==
  Constructed =>
    particles.rest_densities =
      reconstruct_density([masses |-> masses, positions |-> positions, h |-> h,
                           num_particles |-> Len(positions)])

\* C2 case: two timesteps done and the current densities differ from the
\* rest densities
C2_Witness ==
  /\ Constructed
  /\ Len(frame_data) >= 2
  /\ densities # particles.rest_densities

\* the constructor's arguments are inconsistent
InvalidArguments ==
  \/ Len(masses) # Len(positions)
  \/ Len(velocities) # Len(positions)
  \/ num_fluid_particles > Len(positions)

\* C3: arguments with inconsistent array lengths or a fluid count above the
\* particle count never get past the constructor: it raises, and no timestep
\* runs on them
C3_ConstructionFailsFast ==
  InvalidArguments => pc \in { "construct", "ctor_error" }

\* the sum over j of density_a * mass_j * (pressure_a/density_a^2 +
\* pressure_a/density_a^2) * kernelGradient(position_i - position_j, h), where
\* a is i (own = TRUE) or j (own = FALSE), from the arrays a timestep computed
GradSum(ps, dens, pr, own) ==
  LET n == ps.num_particles
      bracket == np_array([a \in 1..n |->
                             fadd(fdiv(pr[a], fmul(dens[a], dens[a])),
                                  fdiv(pr[a], fmul(dens[a], dens[a])))], n)
      term(i, j, a) ==
        vscale(fmul(fmul(dens[a], ps.masses[j]), bracket[a]),
               gaussian_grad(vsub(ps.positions[i], ps.positions[j]), ps.h))
  IN  np_array([i \in 1..n |->
                  np_sum_rows(np_array([j \in 1..n |->
                                          term(i, j, IF own THEN i ELSE j)], n))], n)

\* C4 as claimed: the pressure gradient of particle i is the sum over j of
\* density_i * mass_j * (pressure_i/density_i^2 + pressure_i/density_i^2)
\* * kernelGradient(position_i - position_j, h)
C4_GradUsesOwnPressure ==
  [][Stepped => pressure_grads' = GradSum(particles, densities', pressures', TRUE)]_vars

\* C4 amended: the pressure gradient of particle i is the sum over j of
\* density_j * mass_j * (pressure_j/density_j^2 + pressure_j/density_j^2)
\* * kernelGradient(position_i - position_j, h): density and pressure are
\* those of the summed particle j
C4_GradUsesNeighbourPressure ==
  [][Stepped => pressure_grads' = GradSum(particles, densities', pressures', FALSE)]_vars

\* C4 case: a timestep in which two particles have different pressures and
\* different positions, and some pressure gradient is not zero
C4_Witness ==
  /\ Len(frame_data) >= 1
  /\ \E i \in 1..N : \E j \in 1..N :
       /\ pressures[i] # pressures[j]
       /\ frame_data[Len(frame_data)][i] # frame_data[Len(frame_data)][j]
  /\ \E i \in 1..N : pressure_grads[i] # << 0, 0 >>

\* C5: every pressure a timestep computes is >= 0
C5_PressureNonNegative ==
  \A i \in DOMAIN pressures : pressures[i] >= 0

\* C5 case: a timestep in which one particle is below its rest density,
\* one above and one at it
C5_Witness ==
  /\ Len(frame_data) >= 1
  /\ \E i \in 1..N : densities[i] < particles.rest_densities[i]
  /\ \E i \in 1..N : densities[i] > particles.rest_densities[i]
  /\ \E i \in 1..N : densities[i] = particles.rest_densities[i]

\* C6: every iteration runs one timestep and appends the positions it
\* committed, leaving the frames recorded before untouched; the particle set
\* changes in no other way; the loop ends with num_frames frames
C6_OneFramePerTimestep ==
  /\ [](pc = "done" => Len(frame_data) = num_frames)
  /\ [][/\ frame_data' # frame_data =>
             /\ particles' = timestep(particles, g, dt)
             /\ frame_data' = Append(frame_data, particles'.positions)
        /\ (Constructed /\ particles' # particles) => Stepped]_vars

\* C6 case: the loop is over and the particles moved between the first and
\* the last frame
C6_Witness ==
  /\ pc = "done"
  /\ Len(frame_data) = num_frames
  /\ frame_data[1] # frame_data[num_frames]

\* C7: a timestep with every density at its rest density and zero gravity
\* computes zero pressures and zero pressure gradients and commits the
\* velocities it started from
C7_Quiescence ==
  [][(Stepped /\ densities' = particles.rest_densities /\ g = << 0, 0 >>) =>
       /\ \A i \in 1..N : pressures'[i] = 0
       /\ \A i \in 1..N : pressure_grads'[i] = << 0, 0 >>
       /\ particles'.velocities = particles.velocities]_vars

\* C7 case: zero gravity, the last timestep ran at rest density with two
\* particles within kernel range of each other, one of them fluid
C7_Witness ==
  /\ Len(frame_data) >= 1
  /\ g = << 0, 0 >>
  /\ densities = particles.rest_densities
  /\ F >= 1
  /\ \E i \in 1..N : \E j \in 1..N :
       /\ i # j
       /\ gaussian(vsub(particles.positions[i], particles.positions[j]), h) > 0

\* dt * (-grad_i / density_i) / mass_i, from the arrays the timestep computed
PressureTerm(i) ==
  vdiv(vscale(dt, vscale(fdiv(-ONE, densities'[i]), pressure_grads'[i])),
       particles.masses[i])

\* C8: the velocity a timestep commits is v + dt*g + dt*(-grad/density)/mass
\* for a fluid particle and v + dt*(-grad/density)/mass for a boundary
\* particle
C8_VelocityTransition ==
  [][Stepped =>
       \A i \in 1..N :
         particles'.velocities[i] =
           IF i <= F
           THEN vadd(vadd(particles.velocities[i], vscale(dt, g)), PressureTerm(i))
           ELSE vadd(particles.velocities[i], PressureTerm(i))]_vars

\* C8 case: gravity is on, there is a fluid particle, and a boundary
\* particle's velocity differs from its initial one
C8_Witness ==
  /\ Len(frame_data) >= 1
  /\ g # << 0, 0 >>
  /\ F >= 1
  /\ \E i \in 1..N : i > F /\ particles.velocities[i] # velocities[i]

\* C9: a timestep computes the committed velocities from the densities and
\* pressure gradients of the positions before the step (gravity, then
\* pressure), and moves every fluid particle by dt times its committed
\* velocity
C9_StepOrder ==
  [][Stepped =>
       /\ particles'.velocities =
            apply_pressure_force(particles, apply_gravity_force(particles, g, dt),
                                 reconstruct_density(particles),
                                 eval_pressure_grad(particles,
                                                    reconstruct_density(particles)),
                                 dt)
       /\ \A i \in 1..N :
            i <= F => particles'.positions[i] =
                        vadd(particles.positions[i],
                             vscale(dt, particles'.velocities[i]))]_vars

\* C9 case: a fluid particle whose last timestep changed its velocity by
\* pressure as well as by gravity, and which has moved
C9_Witness ==
  /\ Len(frame_data) >= 2
  /\ g # << 0, 0 >>
  /\ \E i \in 1..N :
       /\ i <= F
       /\ pressure_grads[i] # << 0, 0 >>
       /\ particles.positions[i] # frame_data[Len(frame_data) - 1][i]

\* C10: every rest density and every density a timestep computes is at
\* least mass_i * kernelValue(0, h), which is positive, so that no pressure,
\* pressure gradient or velocity is non-finite
C10_DensityPositive ==
  /\ Constructed =>
       \A i \in 1..N :
         /\ fmul(particles.masses[i], W0) > 0
         /\ particles.rest_densities[i] >= fmul(particles.masses[i], W0)
         /\ particles.velocities[i][1] # NaN
         /\ particles.velocities[i][2] # NaN
  /\ \A i \in DOMAIN densities :
       /\ densities[i] >= fmul(particles.masses[i], W0)
       /\ pressures[i] # NaN
       /\ pressure_grads[i][1] # NaN
       /\ pressure_grads[i][2] # NaN

\* C10 case: a timestep in which a particle gets no kernel contribution from
\* any other particle
C10_Witness ==
  /\ Len(frame_data) >= 1
  /\ N >= 2
  /\ \E i \in 1..N : densities[i] = fmul(particles.masses[i], W0)

====
